---- MODULE Spec2Model ----
(***************************************************************************)
(* A model of main.py: the sanctioned-entity collector (OpenSanctions      *)
(* search, richness dedup, manual INN resolution) and the supplier         *)
(* discovery (ClearSpending paginated fetch with API-key rotation, local   *)
(* OKPD2 filter, top-3 supplier aggregation).                              *)
(*                                                                         *)
(* Strings are sequences of one-character strings, so that len(),          *)
(* str.isdigit(), str.startswith(), str.strip(), str.lower(), the `in`     *)
(* substring test and str(int(x)) are computed as Python computes them.    *)
(* The non-ASCII characters are written by their code point ("U+0663").    *)
(***************************************************************************)
EXTENDS Integers, Sequences, FiniteSets, TLC

VARIABLES
    \* ---- is_valid_inn called on one value
    number,               \* the argument of is_valid_inn
    inn_checked,          \* TRUE once is_valid_inn has returned
    inn_valid,            \* what it returned
    \* ---- fetch_opensanctions_data
    os_pc,                \* "collect", "prompt", "saved", "crashed"
    keyword_i,            \* position of the `for keyword in keywords` loop (1-based)
    offset,               \* line 115 / 171
    all_results,          \* the list all_results (line 81), in append order
    df,                   \* the DataFrame df: rows in table order, each with its index label
    prompt_queue,         \* the rows of missing_inns (line 183) not yet iterated
    prompted,             \* history: index labels the user was asked about
    failed,               \* history: the keywords (by position) whose search ended with a
                          \* RequestException
    \* ---- fetch_clearspending_data / query_clearspending
    TEST_MODE,            \* the global of line 29, set by setup_mode
    cs_pc,                \* "start"; "request": a request is in flight; "done"; "aborted"
                          \* (SystemExit); "crashed" (an uncaught exception)
    index,                \* position of the data.iterrows() loop (0-based)
    current_key_index,    \* line 201 / 220
    params,               \* the params of the request in flight: apikey, customer_inn, page
    all_contracts,        \* line 212
    suppliers_aggregate,  \* line 248: supplier INN -> entry
    delay,                \* seconds slept (time.sleep) between the previous response, or
                          \* the start, and the request in flight
    last_event,           \* history: how the last request ended
    pages,                \* history: the pages the current fetch got with status 200
    fetched,              \* history: per customer fetched, what query_clearspending returned
    limited,              \* history: the keys that have answered 429
    more_pages,           \* history: whether the last response with status 200 had a
                          \* next_page
    throttled,            \* history: the keys that have answered 429 in the current fetch
                          \* since its last response with status 200
    \* ---- the product-code filter of line 269 applied to one contract
    filter_contract,      \* the contract
    filter_done,          \* TRUE once the filter has been applied
    filter_passed         \* whether the contract is in filtered_contracts

innVars == <<number, inn_checked, inn_valid>>
osVars  == <<os_pc, keyword_i, offset, all_results, df, prompt_queue, prompted, failed>>
csVars  == <<TEST_MODE, cs_pc, index, current_key_index, params, all_contracts,
             suppliers_aggregate, delay, last_event, pages, fetched, limited,
             more_pages, throttled>>
flVars  == <<filter_contract, filter_done, filter_passed>>
vars    == <<innVars, osVars, csVars, flVars>>

----------------------------------------------------------------------------
(* Characters and strings *)

AsciiDigits == {"0", "1", "2", "3", "4", "5", "6", "7", "8", "9"}

\* Characters outside ASCII for which Python's str.isdigit() is True:
\* ARABIC-INDIC DIGIT THREE, FULLWIDTH DIGIT ONE, SUPERSCRIPT TWO.
UnicodeDigits == {"U+0663", "U+FF11", "U+00B2"}

Whitespace == {" "}

\* str.isdigit() of one character
IsDigitChar(c) == c \in AsciiDigits \cup UnicodeDigits

\* str.isdigit(): every character is a digit and there is at least one
isdigit(s) == Len(s) > 0 /\ \A i \in 1..Len(s) : IsDigitChar(s[i])

\* Python values that reach is_valid_inn: a str, or something that is not a str
\* (None from a missing property, a number).
StrVal(s) == [kind |-> "str", chars |-> s]
NoneVal   == [kind |-> "none", chars |-> << >>]
IntVal    == [kind |-> "int", chars |-> << >>]

\* line 34: isinstance(number, str) and number.isdigit() and len(number) in [10, 12]
is_valid_inn(v) ==
    v.kind = "str" /\ isdigit(v.chars) /\ Len(v.chars) \in {10, 12}

\* The claim's definition of a TaxId: a str of exactly 10 or 12 ASCII digits.
IsTaxId(v) ==
    /\ v.kind = "str"
    /\ Len(v.chars) \in {10, 12}
    /\ \A i \in 1..Len(v.chars) : v.chars[i] \in AsciiDigits

----------------------------------------------------------------------------
(* Inputs of is_valid_inn *)

MaxInnLen == 12     \* longest string tried

OddChars == {"0", "x", " ", "U+0663"}

\* Every string of at most MaxInnLen characters that is "7" everywhere except at
\* up to two positions, where it holds any of OddChars.
InnStrings ==
    UNION { UNION { { [i \in 1..n |-> IF i \in P THEN f[i] ELSE "7"] : f \in [P -> OddChars] }
                    : P \in { Q \in SUBSET (1..n) : Cardinality(Q) <= 2 } }
            : n \in 0..MaxInnLen }

InnInputs == { StrVal(s) : s \in InnStrings } \cup {NoneVal, IntVal}

----------------------------------------------------------------------------
(* fetch_opensanctions_data: the raw results of the sanctions search *)

Inn1 == <<"1", "2", "3", "4", "5", "6", "7", "8", "9", "0">>
Inn2 == <<"7", "7", "0", "0", "0", "0", "0", "0", "0", "1">>
Inn0 == <<"0", "1", "2", "3", "4", "5", "6", "7", "8", "9">>   \* a leading zero
BadInn == <<"1", "2", "-", "3">>

\* A property of a result: absent, or the list of its values.
Absent   == [present |-> FALSE, vals |-> << >>]
Prop(vs) == [present |-> TRUE, vals |-> vs]

\* An alias is a str, or a dict with 'lang' and 'value'.
AliasStr(s)        == [dict |-> FALSE, lang |-> "", value |-> s]
AliasDict(lang, s) == [dict |-> TRUE, lang |-> lang, value |-> s]

\* Cyrillic letters: U+044B is the Russian-specific letter yeru, U+042B its capital,
\* U+0456 the Ukrainian-specific letter i, U+0430 the letter a.
AliasRu1 == <<"U+0430", "U+044B">>
AliasRu2 == <<"U+042B">>
AliasUk  == <<"U+044B", "U+0456">>
AliasLat == <<"a">>

Raw(id, schema, caption, taxNumber, innCode, alias, name) ==
    [id |-> id, schema |-> schema, caption |-> caption,
     properties |-> [taxNumber |-> taxNumber, innCode |-> innCode,
                     alias |-> alias, name |-> name]]

\* The results the search may return.
RawCatalog == {
    \* caption and tax id only
    Raw("A", <<"L", "e", "g", "a", "l", "E", "n", "t", "i", "t", "y">>, <<"a", "l", "f", "a">>, Absent, Prop(<<StrVal(Inn1)>>), << >>, << >>),
    \* the same tax id, the same number of populated fields
    Raw("A2", <<"C", "o", "m", "p", "a", "n", "y">>, <<"a", "l", "f", "a", "2">>, Absent, Prop(<<StrVal(Inn1)>>), << >>, << >>),
    \* the same tax id, two Russian aliases more
    Raw("B", <<"L", "e", "g", "a", "l", "E", "n", "t", "i", "t", "y">>, <<"A", "l", "f", "a">>, Absent, Prop(<<StrVal(Inn1)>>),
        <<AliasStr(AliasRu1), AliasStr(AliasUk)>>, <<AliasDict("rus", AliasRu2), AliasDict("eng", AliasRu1)>>),
    \* no innCode, a tax number that is a valid INN
    Raw("C", <<"O", "r", "g", "a", "n", "i", "z", "a", "t", "i", "o", "n">>, <<"b", "e", "t", "a">>, Prop(<<StrVal(Inn2)>>), Absent, <<AliasStr(AliasLat)>>, << >>),
    \* neither
    Raw("D", <<"L", "e", "g", "a", "l", "E", "n", "t", "i", "t", "y">>, <<"g", "a", "m", "m", "a">>, Absent, Absent, << >>, << >>),
    \* no innCode, a tax number that is no INN
    Raw("E", <<"L", "e", "g", "a", "l", "E", "n", "t", "i", "t", "y">>, <<"d", "e", "l", "t", "a">>, Prop(<<StrVal(BadInn)>>), Absent, << >>, << >>),
    \* a person
    Raw("P", <<"P", "e", "r", "s", "o", "n">>, <<"i", "v", "a", "n">>, Absent, Prop(<<StrVal(Inn2)>>), << >>, << >>),
    \* a caption with an excluded keyword
    Raw("X", <<"L", "e", "g", "a", "l", "E", "n", "t", "i", "t", "y">>, <<"V", "B", "a", "n", "k", "s">>, Absent, Prop(<<StrVal(Inn2)>>), << >>, << >>),
    \* an explicit innCode that is no INN
    Raw("I", <<"L", "e", "g", "a", "l", "E", "n", "t", "i", "t", "y">>, <<"i", "o", "t", "a">>, Prop(<<StrVal(Inn1)>>), Prop(<<StrVal(BadInn)>>), << >>, << >>)
}

\* setup_mode: the keywords searched and the excluded keywords (line 63: the defaults)
Keywords == <<"kw1", "kw2">>
excluded_keywords == << <<"b", "a", "n", "k", "s">>, <<"p", "o", "l", "i", "t", "i", "c", "s">>,
                        <<"m", "e", "d", "i", "c", "a", "l">> >>

\* str.lower() of one character, and of a string
UpperChars == <<"A", "B", "C", "D", "E", "F", "G", "H", "I", "J", "K", "L", "M", "N", "O", "P",
                "Q", "R", "S", "T", "U", "V", "W", "X", "Y", "Z", "U+042B">>
LowerChars == <<"a", "b", "c", "d", "e", "f", "g", "h", "i", "j", "k", "l", "m", "n", "o", "p",
                "q", "r", "s", "t", "u", "v", "w", "x", "y", "z", "U+044B">>
LowerChar(c) ==
    IF \E k \in 1..Len(UpperChars) : UpperChars[k] = c
    THEN LowerChars[CHOOSE k \in 1..Len(UpperChars) : UpperChars[k] = c]
    ELSE c
lower(s) == [i \in 1..Len(s) |-> LowerChar(s[i])]

\* sub in s
Contains(s, sub) ==
    \E k \in 0..(Len(s) - Len(sub)) : \A i \in 1..Len(sub) : s[k + i] = sub[i]

\* lines 91-92
russian_specific_chars   == {"U+044B", "U+044D", "U+0439"}
ukrainian_specific_chars == {"U+0454", "U+0456", "U+0457", "U+0491"}

SeqRange(s) == { s[i] : i \in 1..Len(s) }

\* lines 99 / 103: the test an alias value passes
AliasKept(v) ==
    /\ SeqRange(v) \cap russian_specific_chars # {}
    /\ SeqRange(v) \cap ukrainian_specific_chars = {}

\* lines 89-105 extract_russian_aliases: the set `aliases`
extract_russian_aliases(properties) ==
    LET both == properties.alias \o properties.name
    IN  { lower(both[i].value) : i \in { j \in 1..Len(both) :
              /\ (both[j].dict => both[j].lang = "rus")
              /\ AliasKept(lower(both[j].value)) } }

\* properties.get(field, [None])[0]; an empty list raises IndexError
FirstOf(prop) == IF prop.present THEN prop.vals[1] ELSE NoneVal
RaisesIndexError(prop) == prop.present /\ prop.vals = << >>

\* truthiness of a str or None
Truthy(v) == v.kind = "str" /\ Len(v.chars) > 0

\* lines 83-87 and 155-157: taxNumber and innCode of a result
extract_tax_info(properties) ==
    LET taxNumber == FirstOf(properties.taxNumber)
        innCode   == FirstOf(properties.innCode)
    IN  [taxNumber |-> taxNumber,
         innCode   |-> IF Truthy(taxNumber) /\ is_valid_inn(taxNumber) /\ ~Truthy(innCode)
                       THEN taxNumber ELSE innCode]

\* lines 143-153: the result is skipped (a person, or an excluded caption)
Skipped(result) ==
    \/ lower(result.schema) = <<"p", "e", "r", "s", "o", "n">>
    \/ \E k \in 1..Len(excluded_keywords) :
           Contains(lower(result.caption), excluded_keywords[k])

\* lines 155-166: the row a result that is not skipped adds to all_results;
\* label is its index label in the DataFrame of line 177
ResultRow(result, label) ==
    LET tax_info == extract_tax_info(result.properties)
    IN  [idx |-> label, id |-> result.id, caption |-> StrVal(result.caption),
         schema |-> result.schema,
         taxNumber |-> tax_info.taxNumber, innCode |-> tax_info.innCode,
         aliases |-> extract_russian_aliases(result.properties)]

\* lines 142-166: the loop over one page of results, from the list `acc`
RECURSIVE ProcessResults(_, _)
ProcessResults(results, acc) ==
    IF results = << >> THEN acc
    ELSE IF Skipped(Head(results)) THEN ProcessResults(Tail(results), acc)
    ELSE ProcessResults(Tail(results), Append(acc, ResultRow(Head(results), Len(acc))))

\* An uncaught IndexError (line 85 / 86) on a result that is not skipped
BatchRaises(results) ==
    \E i \in 1..Len(results) :
        /\ ~Skipped(results[i])
        /\ \/ RaisesIndexError(results[i].properties.taxNumber)
           \/ RaisesIndexError(results[i].properties.innCode)

\* pd.notnull / pd.isna of a cell
notnull(v) == v.kind # "none"
isna(v)    == v.kind = "none"

\* lines 107-112: innCode, taxNumber, caption and every russian_alias_ column
calculate_richness_score(row) ==
    (IF notnull(row.innCode) THEN 1 ELSE 0) + (IF notnull(row.taxNumber) THEN 1 ELSE 0)
    + (IF notnull(row.caption) THEN 1 ELSE 0) + Cardinality(row.aliases)

\* The rows of s at the positions I, in order
RECURSIVE Pick(_, _, _)
Pick(s, I, i) ==
    IF i > Len(s) THEN << >>
    ELSE (IF i \in I THEN <<s[i]>> ELSE << >>) \o Pick(s, I, i + 1)

\* Permutations of 1..n as functions
Perms(n) == { p \in [1..n -> 1..n] : \A i, j \in 1..n : i # j => p[i] # p[j] }

\* line 180 sort_values('richness_score', ascending=False): kind defaults to
\* 'quicksort', which is not stable, so rows of equal score come in any order.
sort_values(rows) ==
    { [i \in 1..Len(rows) |-> rows[p[i]]] : p \in
        { q \in Perms(Len(rows)) : \A i \in 1..(Len(rows) - 1) :
            calculate_richness_score(rows[q[i]]) >= calculate_richness_score(rows[q[i + 1]]) } }

\* As drop_duplicates, but a row is compared with the row just before it only
drop_adjacent_duplicates(rows) ==
    Pick(rows, { i \in 1..Len(rows) : i = 1 \/ rows[i - 1].innCode # rows[i].innCode }, 1)

\* line 180 drop_duplicates('innCode', keep='first'): a row stays unless an earlier
\* row has the same innCode; missing values count as equal to each other.
drop_duplicates(rows) ==
    Pick(rows, { i \in 1..Len(rows) : \A j \in 1..(i - 1) : rows[j].innCode # rows[i].innCode }, 1)

\* line 183: the index labels of the rows whose innCode is missing, in table order
missing_inns(rows) ==
    LET m == Pick(rows, { i \in 1..Len(rows) : isna(rows[i].innCode) }, 1)
    IN  [i \in 1..Len(m) |-> m[i].idx]

\* str.strip()
RECURSIVE lstrip(_)
lstrip(s) == IF s # << >> /\ Head(s) \in Whitespace THEN lstrip(Tail(s)) ELSE s
RECURSIVE rstrip(_)
rstrip(s) == IF s # << >> /\ s[Len(s)] \in Whitespace THEN rstrip(SubSeq(s, 1, Len(s) - 1)) ELSE s
strip(s) == rstrip(lstrip(s))

\* line 189: df.at[idx, 'innCode'] = user_inn
SetInn(rows, label, v) ==
    [i \in 1..Len(rows) |-> IF rows[i].idx = label THEN [rows[i] EXCEPT !.innCode = v] ELSE rows[i]]

----------------------------------------------------------------------------
(* fetch_opensanctions_data: the search loop, the dedup, the prompts *)

BatchSize  == 2     \* stands for batch_size (line 80): a full page has this many results
MaxResults == 3     \* results the search returns in one run, at most

\* The pages the search may answer with
Batches == UNION { [1..n -> RawCatalog] : n \in 0..BatchSize }

UserInputs == { << >>, <<" ", " ">>, Inn1, <<" ">> \o Inn2 \o <<" ">>, BadInn }

\* Lines 176-183 and, when no row misses its INN, 193-199; reached when the loop
\* over the keywords ends. An empty all_results gives a DataFrame without
\* columns, and df['innCode'] of line 183 raises KeyError.
FinishSearch(all) ==
    IF all = << >>
    THEN /\ os_pc' = "crashed"
         /\ UNCHANGED <<df, prompt_queue>>
    ELSE \E sorted \in sort_values(all) :
            LET deduped == drop_duplicates(sorted)
                queue   == missing_inns(deduped)
            IN  /\ df' = deduped
                /\ prompt_queue' = queue
                /\ os_pc' = IF queue = << >> THEN "saved" ELSE "prompt"

\* The `while more_results` loop of a keyword ends: the next keyword, or the dedup
NextKeyword(all) ==
    IF keyword_i < Len(Keywords)
    THEN /\ keyword_i' = keyword_i + 1
         /\ offset' = 0
         /\ UNCHANGED <<os_pc, df, prompt_queue>>
    ELSE /\ UNCHANGED <<keyword_i, offset>>
         /\ FinishSearch(all)

\* lines 133-171: a response with status 2xx and its results
SearchPage(results) ==
    /\ os_pc = "collect"
    /\ Len(all_results) + Len(results) <= MaxResults
    /\ Len(results) = BatchSize => offset + BatchSize <= MaxResults
    /\ UNCHANGED <<prompted, failed>>
    /\ IF BatchRaises(results)
       THEN /\ os_pc' = "crashed"
            /\ UNCHANGED <<keyword_i, offset, all_results, df, prompt_queue>>
       ELSE LET all == ProcessResults(results, all_results)
            IN  /\ all_results' = all
                /\ IF Len(results) > 0 /\ Len(results) >= BatchSize
                   THEN /\ offset' = offset + BatchSize
                        /\ UNCHANGED <<os_pc, keyword_i, df, prompt_queue>>
                   ELSE NextKeyword(all)

\* As SearchFail, but the exception is not caught and ends the run
SearchFailEndsRun ==
    /\ os_pc = "collect"
    /\ failed' = Append(failed, keyword_i)
    /\ os_pc' = "crashed"
    /\ UNCHANGED <<keyword_i, offset, all_results, df, prompt_queue, prompted>>

\* lines 172-174: requests.get or raise_for_status raised a RequestException
SearchFail ==
    /\ os_pc = "collect"
    /\ failed' = Append(failed, keyword_i)
    /\ UNCHANGED <<all_results, prompted>>
    /\ NextKeyword(all_results)

\* lines 184-191: one iteration of the loop over missing_inns, the user typing
\* `typed`; after the last one, lines 193-199
Prompt(typed) ==
    /\ os_pc = "prompt"
    /\ LET label    == Head(prompt_queue)
           user_inn == StrVal(strip(typed))
       IN  /\ df' = IF Truthy(user_inn) /\ is_valid_inn(user_inn)
                    THEN SetInn(df, label, user_inn) ELSE df
           /\ prompted' = Append(prompted, label)
    /\ prompt_queue' = Tail(prompt_queue)
    /\ os_pc' = IF Tail(prompt_queue) = << >> THEN "saved" ELSE "prompt"
    /\ UNCHANGED <<keyword_i, offset, all_results, failed>>

----------------------------------------------------------------------------
(* fetch_clearspending_data: the entity table, the contracts, the aggregation *)

\* The rows of the entity table (the CSV of line 247): caption and the innCode cell
EntityTable == <<
    [caption |-> "alfa",  innCode |-> StrVal(<<" ">> \o Inn1)],    \* a blank before the digits
    [caption |-> "gamma", innCode |-> NoneVal],
    [caption |-> "beta",  innCode |-> StrVal(Inn0)] >>

\* The value of an ASCII or other decimal digit as an ASCII digit
DigitValue(c) ==
    CASE c = "U+0663" -> "3" [] c = "U+FF11" -> "1" [] OTHER -> c

\* The characters int() takes as decimal digits (U+00B2 is a digit, but no decimal)
DecimalChars == AsciiDigits \cup {"U+0663", "U+FF11"}

\* int() of a str first takes the whitespace off both ends
IntStripped(s) == strip(s)

\* ... then an optional sign
IntSign(s) ==
    LET t == IntStripped(s)
    IN  IF t # << >> /\ Head(t) \in {"+", "-"} THEN Head(t) ELSE ""

\* ... and what is left are the digits, with single underscores between them
IntBody(s) ==
    LET t == IntStripped(s)
    IN  IF IntSign(s) # "" THEN Tail(t) ELSE t

\* int() does not raise ValueError: decimal digits, an underscore only between
\* two digits
IntParses(s) ==
    LET u == IntBody(s)
    IN  /\ Len(u) > 0
        /\ \A i \in 1..Len(u) : u[i] \in DecimalChars \cup {"_"}
        /\ \A i \in 1..Len(u) : u[i] = "_" =>
               /\ i > 1 /\ i < Len(u)
               /\ u[i - 1] \in DecimalChars /\ u[i + 1] \in DecimalChars

\* str() of an int: no leading zero
RECURSIVE DropLeadingZeros(_)
DropLeadingZeros(s) ==
    IF Len(s) > 1 /\ Head(s) = "0" THEN DropLeadingZeros(Tail(s)) ELSE s

\* line 259: str(int(row['innCode'])); read_csv has made the cell a number when it
\* is one, and int() parses it otherwise: the digits by their values, without the
\* underscores and the leading zeros, after a "-" when the number is negative
StrOfInt(s) ==
    LET u      == IntBody(s)
        digits == Pick(u, { i \in 1..Len(u) : u[i] # "_" }, 1)
        value  == DropLeadingZeros([i \in 1..Len(digits) |-> DigitValue(digits[i])])
    IN  IF IntSign(s) = "-" /\ value # <<"0">> THEN <<"-">> \o value ELSE value

\* get_api_keys: the keys CLEARSPENDING_API_KEY_1.., named by their number
NumKeys == 3
api_keys == [i \in 1..NumKeys |-> i]

\* setup_mode line 73: the product codes typed, split at the commas
product_codes == << <<"2", "6", ".", "1", "1">>,
                    <<" ", "2", "6", ".", "1", "2", " ">>,
                    <<"6", "1">>,
                    <<"C">> >>

\* lines 250-253
test_product_codes == IF TEST_MODE THEN SubSeq(product_codes, 1, 2) ELSE product_codes

Contract(id, amount, codes, inns, names) ==
    [id |-> id, amount_rur |-> amount, product_codes |-> codes,
     supplier_inns |-> inns, supplier_names |-> names]

Code261111 == <<"2", "6", ".", "1", "1", ".", "1", "1">>
Code261230 == <<"2", "6", ".", "1", "2", ".", "3", "0">>
Code6110   == <<"6", "1", ".", "1", "0">>
Code2790   == <<"2", "7", ".", "9", "0">>

\* The contracts the API may return
ContractCatalog == {
    Contract("kA", 5, <<Code261111, Code261230>>, <<"S1">>, <<"N1">>),
    \* as large as kA; two suppliers, S1 under another name
    Contract("kB", 5, <<Code261230>>, <<"S2", "S1">>, <<"N2", "N1b">>),
    \* smaller; matches the third product code only; one supplier name is missing
    Contract("kD", 3, <<Code6110>>, <<"S2", "S3">>, <<"N2">>),
    \* matches no product code
    Contract("kN", 7, <<Code2790>>, <<"S1">>, <<"N1">>)
}

\* As startswith, but the whole string has to equal the prefix
equals(s, prefix) == s = prefix

\* str.startswith
startswith(s, prefix) ==
    Len(prefix) <= Len(s) /\ \A i \in 1..Len(prefix) : s[i] = prefix[i]

\* line 269: the contract passes the product-code filter
MatchesFilter(contract, okpd2_codes) ==
    \E k \in 1..Len(okpd2_codes) : \E j \in 1..Len(contract.product_codes) :
        startswith(contract.product_codes[j], strip(okpd2_codes[k]))

\* lines 267-270
filtered_contracts(contracts, okpd2_codes) ==
    Pick(contracts, { i \in 1..Len(contracts) : MatchesFilter(contracts[i], okpd2_codes) }, 1)

TopK == 3

\* sorted(..., key=amount_rur, reverse=True): stable, equal amounts keep their order
sorted_by_amount(contracts) ==
    LET n == Len(contracts)
        rank(i) == Cardinality({ j \in 1..n : contracts[j].amount_rur > contracts[i].amount_rur })
                   + Cardinality({ j \in 1..(i - 1) : contracts[j].amount_rur = contracts[i].amount_rur })
                   + 1
    IN  [r \in 1..n |-> contracts[CHOOSE i \in 1..n : rank(i) = r]]

\* lines 273-277
top_contracts(filtered) ==
    LET sorted == sorted_by_amount(filtered)
    IN  SubSeq(sorted, 1, IF Len(sorted) < TopK THEN Len(sorted) ELSE TopK)

EmptyAggregate == [s \in {} |-> 0]

\* As Credit, but a supplier seen again also takes the name of the new observation
CreditRenames(agg, supplier_inn, supplier_name, contract, caption, inn) ==
    IF supplier_inn \notin DOMAIN agg
    THEN [s \in DOMAIN agg \cup {supplier_inn} |->
            IF s = supplier_inn
            THEN [name |-> supplier_name, inn |-> supplier_inn,
                  total |-> contract.amount_rur,
                  codes |-> SeqRange(contract.product_codes),
                  names |-> {caption}, inns |-> {inn}]
            ELSE agg[s]]
    ELSE [agg EXCEPT ![supplier_inn] =
            [@ EXCEPT !.name = supplier_name,
                      !.total = @ + contract.amount_rur,
                      !.codes = @ \cup SeqRange(contract.product_codes),
                      !.names = @ \cup {caption},
                      !.inns  = @ \cup {inn}]]

\* lines 285-298: one (supplier_inn, supplier_name, amount) of a contract
Credit(agg, supplier_inn, supplier_name, contract, caption, inn) ==
    IF supplier_inn \notin DOMAIN agg
    THEN [s \in DOMAIN agg \cup {supplier_inn} |->
            IF s = supplier_inn
            THEN [name |-> supplier_name, inn |-> supplier_inn,
                  total |-> contract.amount_rur,
                  codes |-> SeqRange(contract.product_codes),
                  names |-> {caption}, inns |-> {inn}]
            ELSE agg[s]]
    ELSE [agg EXCEPT ![supplier_inn] =
            [@ EXCEPT !.total = @ + contract.amount_rur,
                      !.codes = @ \cup SeqRange(contract.product_codes),
                      !.names = @ \cup {caption},
                      !.inns  = @ \cup {inn}]]

\* lines 280-284: zip stops at the shorter of supplier_inns and supplier_names
ZipLen(contract) ==
    IF Len(contract.supplier_inns) < Len(contract.supplier_names)
    THEN Len(contract.supplier_inns) ELSE Len(contract.supplier_names)

\* lines 280-298: the pairs of one contract from position i on
RECURSIVE CreditContract(_, _, _, _, _)
CreditContract(agg, contract, i, caption, inn) ==
    IF i > ZipLen(contract) THEN agg
    ELSE CreditContract(
            Credit(agg, contract.supplier_inns[i], contract.supplier_names[i], contract, caption, inn),
            contract, i + 1, caption, inn)

\* lines 279-298: the loop over top_contracts
RECURSIVE CreditAll(_, _, _, _)
CreditAll(agg, contracts, caption, inn) ==
    IF contracts = << >> THEN agg
    ELSE CreditAll(CreditContract(agg, Head(contracts), 1, caption, inn),
                   Tail(contracts), caption, inn)

\* lines 262-300: what the contracts fetched for one customer do to suppliers_aggregate
AggregateCustomer(agg, contracts, okpd2_codes, caption, inn) ==
    IF contracts = << >> THEN agg
    ELSE CreditAll(agg, top_contracts(filtered_contracts(contracts, okpd2_codes)), caption, inn)

NoParams == [apikey |-> 0, customer_inn |-> << >>, page |-> 0]

----------------------------------------------------------------------------
(* fetch_clearspending_data and query_clearspending: the requests *)

MaxPageLen == 1     \* contracts on one page, at most
MaxPage    == 2     \* the API reports no further page after this one
MaxFetched == 3     \* contracts the API returns during one run, at most

MaxReturned == 4    \* contracts query_clearspending returns during one run, at most

\* The lists query_clearspending may return
ReturnedLists == UNION { [1..n -> ContractCatalog] : n \in 0..MaxReturned }

TestLimit == 20
SleepSeconds == 5

\* The pages a response with status 200 may carry: contracts kA and kB, in any
\* number up to MaxPageLen and in any order
ContractPages ==
    UNION { [1..n -> { c \in ContractCatalog : c.id \in {"kA", "kB"} }] : n \in 0..MaxPageLen }

RECURSIVE FetchedCount(_)
FetchedCount(f) == IF f = << >> THEN 0 ELSE Len(Head(f).contracts) + FetchedCount(Tail(f))

\* lines 255-260: the first row from position i on that has an innCode, or
\* Len(EntityTable) when the loop ends before one is found
RECURSIVE NextRow(_)
NextRow(i) ==
    IF i >= Len(EntityTable) \/ (TEST_MODE /\ i >= TestLimit) THEN Len(EntityTable)
    ELSE IF isna(EntityTable[i + 1].innCode) THEN NextRow(i + 1)
    ELSE i

\* lines 255-261 and 201-217: the loop goes on from row i, after `slept` seconds of
\* sleep: rows without innCode are passed over, and the first request for the next
\* row is sent; or the rows are exhausted and lines 303-319 write the output.
BeginFetch(i, slept) ==
    LET j == NextRow(i)
    IN  /\ index' = j
        /\ delay' = slept
        /\ IF j >= Len(EntityTable)
           THEN /\ cs_pc' = "done"
                /\ UNCHANGED <<current_key_index, params, all_contracts>>
           ELSE IF ~IntParses(EntityTable[j + 1].innCode.chars)
           THEN /\ cs_pc' = "crashed"      \* ValueError of int()
                /\ UNCHANGED <<current_key_index, params, all_contracts>>
           ELSE /\ cs_pc' = "request"
                /\ current_key_index' = 0
                /\ params' = [apikey |-> api_keys[1],
                              customer_inn |-> StrOfInt(EntityTable[j + 1].innCode.chars),
                              page |-> 1]
                /\ all_contracts' = << >>

\* fetch_clearspending_data is called
Start ==
    /\ cs_pc = "start"
    /\ BeginFetch(0, 0)
    /\ UNCHANGED <<TEST_MODE, suppliers_aggregate, last_event, pages, fetched, limited,
                   more_pages, throttled>>

\* The pages of the fetch in flight: none before its first response
PagesSoFar == IF params.page = 1 /\ current_key_index = 0 THEN << >> ELSE pages

\* lines 242 and 262-301: query_clearspending returns `contracts`; they are
\* aggregated, the loop sleeps and goes on with the next row
EndFetch(contracts) ==
    /\ suppliers_aggregate' =
          AggregateCustomer(suppliers_aggregate, contracts, test_product_codes,
                            EntityTable[index + 1].caption, params.customer_inn)
    /\ fetched' = Append(fetched, [caption |-> EntityTable[index + 1].caption,
                                   inn |-> params.customer_inn,
                                   contracts |-> contracts])
    /\ BeginFetch(index + 1, SleepSeconds)

\* As Response429, but the retry asks for the page after the one that was refused
Response429SkipsPage ==
    /\ cs_pc = "request"
    /\ last_event' = "429"
    /\ limited' = limited \cup {params.apikey}
    /\ throttled' = throttled \cup {params.apikey}
    /\ pages' = PagesSoFar
    /\ current_key_index' = current_key_index + 1
    /\ IF current_key_index + 1 >= Len(api_keys)
       THEN /\ cs_pc' = "aborted"
            /\ UNCHANGED <<params, delay>>
       ELSE /\ delay' = SleepSeconds
            /\ params' = [params EXCEPT !.apikey = api_keys[current_key_index + 2],
                                        !.page = @ + 1]
            /\ UNCHANGED cs_pc
    /\ UNCHANGED <<TEST_MODE, index, all_contracts, suppliers_aggregate, fetched, more_pages>>

\* lines 218-226: status 429
Response429 ==
    /\ cs_pc = "request"
    /\ last_event' = "429"
    /\ limited' = limited \cup {params.apikey}
    /\ throttled' = throttled \cup {params.apikey}
    /\ pages' = PagesSoFar
    /\ current_key_index' = current_key_index + 1
    /\ IF current_key_index + 1 >= Len(api_keys)
       THEN /\ cs_pc' = "aborted"          \* raise SystemExit
            /\ UNCHANGED <<params, delay>>
       ELSE /\ delay' = SleepSeconds
            /\ params' = [params EXCEPT !.apikey = api_keys[current_key_index + 2]]
            /\ UNCHANGED cs_pc
    /\ UNCHANGED <<TEST_MODE, index, all_contracts, suppliers_aggregate, fetched, more_pages>>

\* As Response200, but the next page requested is the one after the next
Response200SkipsPage(contracts, next_page) ==
    /\ cs_pc = "request"
    /\ FetchedCount(fetched) + Len(all_contracts) + Len(contracts) <= MaxFetched
    /\ next_page => params.page < MaxPage
    /\ last_event' = "200"
    /\ pages' = Append(PagesSoFar, contracts)
    /\ throttled' = {}
    /\ IF next_page
       THEN /\ all_contracts' = all_contracts \o contracts
            /\ params' = [params EXCEPT !.page = @ + 2]
            /\ delay' = 0
            /\ UNCHANGED <<cs_pc, index, current_key_index, suppliers_aggregate, fetched>>
       ELSE EndFetch(all_contracts \o contracts)
    /\ more_pages' = next_page
    /\ UNCHANGED <<TEST_MODE, limited>>

\* lines 227-234: status 200 with the contracts of a page and the next_page flag
Response200(contracts, next_page) ==
    /\ cs_pc = "request"
    /\ FetchedCount(fetched) + Len(all_contracts) + Len(contracts) <= MaxFetched
    /\ next_page => params.page < MaxPage
    /\ last_event' = "200"
    /\ pages' = Append(PagesSoFar, contracts)
    /\ throttled' = {}
    /\ IF next_page
       THEN /\ all_contracts' = all_contracts \o contracts
            /\ params' = [params EXCEPT !.page = @ + 1]
            /\ delay' = 0
            /\ UNCHANGED <<cs_pc, index, current_key_index, suppliers_aggregate, fetched>>
       ELSE EndFetch(all_contracts \o contracts)
    /\ more_pages' = next_page
    /\ UNCHANGED <<TEST_MODE, limited>>

\* lines 261-301 with the call of query_clearspending taken as a whole: it returns
\* `contracts` (any list: whatever the responses were), which are aggregated
QueryReturns(contracts) ==
    /\ cs_pc = "request"
    /\ FetchedCount(fetched) + Len(contracts) <= MaxReturned
    /\ last_event' = "returned"
    /\ throttled' = {}
    /\ pages' = << >>
    /\ EndFetch(contracts)
    /\ UNCHANGED <<TEST_MODE, limited, more_pages>>

\* As ResponseOther, but the pages fetched before the failure are dropped
ResponseOtherDropsPages ==
    /\ cs_pc = "request"
    /\ last_event' = "status"
    /\ throttled' = {}
    /\ pages' = PagesSoFar
    /\ EndFetch(<< >>)
    /\ UNCHANGED <<TEST_MODE, limited, more_pages>>

\* lines 235-237: any other status
ResponseOther ==
    /\ cs_pc = "request"
    /\ last_event' = "status"
    /\ throttled' = {}
    /\ pages' = PagesSoFar
    /\ EndFetch(all_contracts)
    /\ UNCHANGED <<TEST_MODE, limited, more_pages>>

\* lines 238-240: requests.get raised a RequestException
RequestFailed ==
    /\ cs_pc = "request"
    /\ last_event' = "exception"
    /\ throttled' = {}
    /\ pages' = PagesSoFar
    /\ EndFetch(all_contracts)
    /\ UNCHANGED <<TEST_MODE, limited, more_pages>>

----------------------------------------------------------------------------
(* is_valid_inn applied to one value *)

CheckInn ==
    /\ ~inn_checked
    /\ inn_valid' = is_valid_inn(number)
    /\ inn_checked' = TRUE
    /\ UNCHANGED number

----------------------------------------------------------------------------
(* The product-code filter applied to one contract *)

MaxCodes == 2       \* product codes of the contract, at most

Code261 == <<"2", "6", ".", "1">>            \* shorter than every prefix
CodeC1  == <<"C", ".", "1">>
Codec1  == <<"c", ".", "1">>                 \* CodeC1 in lower case

FilterCodes == {Code261111, Code261230, Code6110, Code2790, Code261, CodeC1, Codec1}

\* The contracts the filter is applied to: every list of at most MaxCodes codes
FilterContracts ==
    { Contract("k", 1, codes, <<"S1">>, <<"N1">>) :
        codes \in UNION { [1..n -> FilterCodes] : n \in 0..MaxCodes } }

\* lines 267-270 on the list of this one contract
ApplyFilter ==
    /\ ~filter_done
    /\ filter_passed' = (filtered_contracts(<<filter_contract>>, test_product_codes) # << >>)
    /\ filter_done' = TRUE
    /\ UNCHANGED filter_contract

----------------------------------------------------------------------------
(* Specifications *)

FilterIdle ==
    /\ filter_contract = Contract("k", 1, << >>, <<"S1">>, <<"N1">>)
    /\ filter_done = FALSE /\ filter_passed = FALSE

InnIdle == number = NoneVal /\ inn_checked = FALSE /\ inn_valid = FALSE

OsStart ==
    /\ os_pc = "collect" /\ keyword_i = 1 /\ offset = 0
    /\ all_results = << >> /\ df = << >> /\ prompt_queue = << >> /\ prompted = << >>
    /\ failed = << >>

CsIdle ==
    /\ TEST_MODE = FALSE /\ cs_pc = "done" /\ index = 0
    /\ current_key_index = 0 /\ params = NoParams /\ all_contracts = << >>
    /\ suppliers_aggregate = EmptyAggregate /\ delay = 0 /\ last_event = "none"
    /\ pages = << >> /\ fetched = << >> /\ limited = {} /\ throttled = {}
    /\ more_pages = FALSE

\* is_valid_inn on every input
InitInn ==
    /\ number \in InnInputs /\ inn_checked = FALSE /\ inn_valid = FALSE
    /\ OsStart /\ CsIdle /\ FilterIdle
NextInn == CheckInn /\ UNCHANGED <<osVars, csVars, flVars>>
SpecInn == InitInn /\ [][NextInn]_vars

\* fetch_opensanctions_data
InitOS == InnIdle /\ OsStart /\ CsIdle /\ FilterIdle
NextOS ==
    \/ \E results \in Batches : SearchPage(results) /\ UNCHANGED <<innVars, csVars, flVars>>
    \/ SearchFail /\ UNCHANGED <<innVars, csVars, flVars>>
    \/ \E typed \in UserInputs : Prompt(typed) /\ UNCHANGED <<innVars, csVars, flVars>>
SpecOS == InitOS /\ [][NextOS]_vars

\* fetch_clearspending_data
InitCS ==
    /\ InnIdle /\ OsStart /\ FilterIdle
    /\ TEST_MODE \in BOOLEAN /\ cs_pc = "start" /\ index = 0
    /\ current_key_index = 0 /\ params = NoParams /\ all_contracts = << >>
    /\ suppliers_aggregate = EmptyAggregate /\ delay = 0 /\ last_event = "none"
    /\ pages = << >> /\ fetched = << >> /\ limited = {} /\ throttled = {}
    /\ more_pages = FALSE
NextCS ==
    \/ Start /\ UNCHANGED <<innVars, osVars, flVars>>
    \/ Response429 /\ UNCHANGED <<innVars, osVars, flVars>>
    \/ \E contracts \in ContractPages, next_page \in BOOLEAN :
          Response200(contracts, next_page) /\ UNCHANGED <<innVars, osVars, flVars>>
    \/ ResponseOther /\ UNCHANGED <<innVars, osVars, flVars>>
    \/ RequestFailed /\ UNCHANGED <<innVars, osVars, flVars>>
Spec == InitCS /\ [][NextCS]_vars

\* the same, every request getting its response: the code is one sequential loop,
\* so a step that can be taken is taken
SpecLive == Spec /\ WF_vars(NextCS)

\* fetch_clearspending_data, each call of query_clearspending taken as one step
NextAgg ==
    \/ Start /\ UNCHANGED <<innVars, osVars, flVars>>
    \/ \E contracts \in ReturnedLists : QueryReturns(contracts) /\ UNCHANGED <<innVars, osVars, flVars>>
SpecAgg == InitCS /\ [][NextAgg]_vars

\* the product-code filter on every contract of FilterContracts, in both modes
InitFilter ==
    /\ InnIdle /\ OsStart
    /\ TEST_MODE \in BOOLEAN /\ cs_pc = "done" /\ index = 0
    /\ current_key_index = 0 /\ params = NoParams /\ all_contracts = << >>
    /\ suppliers_aggregate = EmptyAggregate /\ delay = 0 /\ last_event = "none"
    /\ pages = << >> /\ fetched = << >> /\ limited = {} /\ throttled = {}
    /\ more_pages = FALSE
    /\ filter_contract \in FilterContracts /\ filter_done = FALSE /\ filter_passed = FALSE
NextFilter == ApplyFilter /\ UNCHANGED <<innVars, osVars, csVars>>
SpecFilter == InitFilter /\ [][NextFilter]_vars

----------------------------------------------------------------------------
(* Properties of the supplier aggregation *)

\* Sum of f over the positions 1..n
RECURSIVE SumTo(_, _)
SumTo(f, n) == IF n = 0 THEN 0 ELSE f[n] + SumTo(f, n - 1)

Last(s) == s[Len(s)]

\* The contract names the supplier among its supplier_inns
Lists(contract, s) ==
    \E i \in 1..Len(contract.supplier_inns) : contract.supplier_inns[i] = s

\* The amounts of ALL contracts fetched for one customer that pass the filter and list s
AllMatchingTotal(contracts, s) ==
    SumTo([i \in 1..Len(contracts) |->
              IF MatchesFilter(contracts[i], test_product_codes) /\ Lists(contracts[i], s)
              THEN contracts[i].amount_rur ELSE 0],
          Len(contracts))

\* C1 (as claimed): for every supplier of the accumulator, 'Total Contract Value'
\* is the sum of amount_rur over all the contracts, of every customer processed,
\* that pass the product-code filter and list that supplier.
C1_TotalIsSumOfAllMatching ==
    \A s \in DOMAIN suppliers_aggregate :
        suppliers_aggregate[s].total =
            SumTo([k \in 1..Len(fetched) |-> AllMatchingTotal(fetched[k].contracts, s)],
                  Len(fetched))

\* The accumulator after the customers of a fetch history
RECURSIVE AggregateHistory(_)
AggregateHistory(f) ==
    IF f = << >> THEN EmptyAggregate
    ELSE AggregateCustomer(AggregateHistory(SubSeq(f, 1, Len(f) - 1)), Last(f).contracts,
                           test_product_codes, Last(f).caption, Last(f).inn)

\* The orders a list can be shuffled into
Shuffles(contracts) ==
    { [i \in 1..Len(contracts) |-> contracts[p[i]]] : p \in Perms(Len(contracts)) }

\* Equal supplier keys, totals, product-code sets and customer sets
SameAccumulator(a, b) ==
    /\ DOMAIN a = DOMAIN b
    /\ \A s \in DOMAIN a :
          /\ a[s].total = b[s].total
          /\ a[s].codes = b[s].codes
          /\ a[s].names = b[s].names
          /\ a[s].inns = b[s].inns

\* The accumulator is what the last customer's contracts give in every order
ShuffleInvariant ==
    LET before == AggregateHistory(SubSeq(fetched, 1, Len(fetched) - 1))
    IN  \A shuffled \in Shuffles(Last(fetched).contracts) :
            SameAccumulator(
                AggregateCustomer(before, shuffled, test_product_codes,
                                  Last(fetched).caption, Last(fetched).inn),
                suppliers_aggregate)

\* C10 (as claimed): for every customer and every permutation of the contracts
\* fetched for it, the accumulator has the same supplier keys, totals,
\* product-code sets and customer sets.
C10_OrderIndependent ==
    fetched # << >> => ShuffleInvariant

\* The (supplier_inn, supplier_name) pairs of a list of contracts, in order
RECURSIVE PairsOf(_)
PairsOf(contracts) ==
    IF contracts = << >> THEN << >>
    ELSE [i \in 1..ZipLen(Head(contracts)) |->
             [inn |-> Head(contracts).supplier_inns[i],
              name |-> Head(contracts).supplier_names[i]]]
         \o PairsOf(Tail(contracts))

\* The observations credited so far, in the order they were credited: for every
\* customer processed, the pairs of its three largest matching contracts
RECURSIVE Observations(_)
Observations(f) ==
    IF f = << >> THEN << >>
    ELSE Observations(SubSeq(f, 1, Len(f) - 1))
         \o PairsOf(top_contracts(filtered_contracts(Last(f).contracts, test_product_codes)))

\* The name of the first observation credited to supplier s
FirstObservedName(s) ==
    LET obs == Observations(fetched)
    IN  obs[CHOOSE i \in 1..Len(obs) :
                obs[i].inn = s /\ \A j \in 1..(i - 1) : obs[j].inn # s].name

\* A step leaves every supplier of the accumulator in it, with its name and tax
\* id, and takes nothing out of its product-code and customer sets
AccumulatorFrameStep ==
    \A s \in DOMAIN suppliers_aggregate :
        /\ s \in DOMAIN suppliers_aggregate'
        /\ suppliers_aggregate'[s].name = suppliers_aggregate[s].name
        /\ suppliers_aggregate'[s].inn = suppliers_aggregate[s].inn
        /\ suppliers_aggregate[s].codes \subseteq suppliers_aggregate'[s].codes
        /\ suppliers_aggregate[s].names \subseteq suppliers_aggregate'[s].names
        /\ suppliers_aggregate[s].inns \subseteq suppliers_aggregate'[s].inns

\* C19: for every supplier tax id, the supplier name of the accumulator is the
\* name of the first observation credited to it, and later observations leave
\* the name unchanged: they change only the total, the product-code set and the
\* customer name and customer tax id sets, which never lose an element.
C19_NameFixedAtFirstObservation ==
    /\ [](\A s \in DOMAIN suppliers_aggregate :
             suppliers_aggregate[s].name = FirstObservedName(s))
    /\ [][AccumulatorFrameStep]_vars

\* C19 witness: S1 was first credited under one name and later under another,
\* by a contract with another product code and for another customer.
C19_Witness ==
    /\ "S1" \in DOMAIN suppliers_aggregate
    /\ Cardinality(suppliers_aggregate["S1"].names) = 2
    /\ Cardinality(suppliers_aggregate["S1"].codes) = 2
    /\ \E i, j \in 1..Len(Observations(fetched)) :
          /\ i < j
          /\ Observations(fetched)[i].inn = "S1" /\ Observations(fetched)[j].inn = "S1"
          /\ Observations(fetched)[i].name # Observations(fetched)[j].name
          /\ \A k \in 1..(i - 1) : Observations(fetched)[k].inn # "S1"

----------------------------------------------------------------------------
(* Properties of the product-code filter *)

\* p is an initial segment of s
IsPrefixOf(p, s) == Len(p) <= Len(s) /\ SubSeq(s, 1, Len(p)) = p

\* p without the blanks around it
Trimmed(p) ==
    LET inner == { i \in 1..Len(p) : p[i] # " " }
    IN  IF inner = {} THEN << >>
        ELSE SubSeq(p, CHOOSE i \in inner : \A j \in inner : i <= j,
                       CHOOSE i \in inner : \A j \in inner : i >= j)

\* The prefixes the filter uses: in test mode the first two requested, else all
PrefixesInEffect ==
    { Trimmed(product_codes[k]) :
        k \in 1..(IF TEST_MODE /\ Len(product_codes) > 2 THEN 2 ELSE Len(product_codes)) }

\* C12 (as claimed): a contract passes the filter if and only if at least one of
\* its product codes starts with at least one of the requested prefixes.
C12_PassesIffRequestedPrefix ==
    filter_done =>
        (filter_passed <=>
            \E c \in SeqRange(filter_contract.product_codes) :
                \E p \in SeqRange(product_codes) : IsPrefixOf(p, c))

\* C12 (amended): a contract passes the filter if and only if at least one of its
\* product codes starts, case-sensitively, with at least one of the prefixes in
\* effect, each taken without the blanks around it: all the requested prefixes,
\* or in test mode the first two only. Codes 26.11.11 and 26.12.30 pass by prefix
\* 26.11; a code 27.90, a code shorter than every prefix, a code in the other
\* case and an empty code list do not pass.
C12_PassesIffPrefixInEffect ==
    filter_done =>
        /\ filter_passed <=>
               \E c \in SeqRange(filter_contract.product_codes) :
                   \E p \in PrefixesInEffect : IsPrefixOf(p, c)
        /\ filter_contract.product_codes = <<Code261111, Code261230>> => filter_passed
        /\ SeqRange(filter_contract.product_codes) \subseteq {Code2790, Code261, Codec1}
               => ~filter_passed

\* C12 witness: in test mode a contract has passed by its second code, which
\* starts with the second requested prefix once the blanks are taken off.
C12_Witness ==
    /\ filter_done /\ filter_passed /\ TEST_MODE
    /\ filter_contract.product_codes = <<Code2790, Code261230>>

----------------------------------------------------------------------------
(* Properties of the contract fetch *)

RECURSIVE Flatten(_)
Flatten(ps) == IF ps = << >> THEN << >> ELSE Head(ps) \o Flatten(Tail(ps))

\* The rows of the entity table that have an innCode, by position (0-based)
RECURSIVE RowsWithInn(_)
RowsWithInn(i) ==
    IF i >= Len(EntityTable) THEN << >>
    ELSE (IF isna(EntityTable[i + 1].innCode) THEN << >> ELSE <<i>>) \o RowsWithInn(i + 1)

\* C3 (as claimed): when every credential has answered 429 since the last
\* success of the fetch, the fetch cools down and then requests the same page
\* again with the first credential, instead of aborting.
C3_CoolDownThenFirstKey ==
    (last_event = "429" /\ throttled = SeqRange(api_keys)) =>
        (cs_pc = "request" /\ params.apikey = api_keys[1])

\* C4 (as claimed): rotation goes through the credentials in order, and once
\* exhaustion has been signalled a reset makes the first credential current again.
C4_ExhaustionIsReset ==
    /\ (cs_pc = "request" /\ last_event = "429") =>
           params.apikey = api_keys[current_key_index + 1]
    /\ current_key_index >= Len(api_keys) =>
           ENABLED (NextCS /\ current_key_index' = 0 /\ cs_pc' = "request")

\* C6 (as claimed): every request carries a customer tax id of 10 or 12 digits.
C6_RequestsCarryTaxId ==
    cs_pc = "request" => IsTaxId(StrVal(params.customer_inn))

\* C9: a status other than 200 and 429, or a transport failure, ends the fetch
\* of that tax id with exactly the contracts of the pages fetched before, and the
\* loop goes on with the next row that has an innCode (or ends after the last);
\* the run is aborted only by a 429 on the last key.
C9_ErrorEndsOnlyTheFetch ==
    /\ last_event \in {"status", "exception"} =>
          /\ fetched # << >>
          /\ Last(fetched).contracts = Flatten(pages)
          /\ IF Len(fetched) < Len(RowsWithInn(0))
             THEN /\ cs_pc = "request"
                  /\ index = RowsWithInn(0)[Len(fetched) + 1]
                  /\ params.page = 1
             ELSE cs_pc = "done"
    /\ cs_pc \notin {"request", "done", "start"} =>
          /\ cs_pc = "aborted"
          /\ last_event = "429"
          /\ current_key_index >= Len(api_keys)

\* C9 witness: page 1 was fetched, the request for page 2 got another status, the
\* contracts of page 1 were returned, and the next customer is being fetched.
C9_Witness ==
    /\ last_event = "status"
    /\ Len(pages) = 1 /\ pages[1] # << >>
    /\ Len(fetched) = 1 /\ fetched[1].contracts # << >>
    /\ cs_pc = "request" /\ index = 2

\* The fetch of the row at position i is going on
Fetching(i) == cs_pc = "request" /\ index = i

\* A step of the fetch and the page cursor: a response with status 200 is
\* followed by the request of the next page when it had a next_page, and ends the
\* fetch when it had none; within a fetch the cursor never goes back, and it
\* moves by one, on a response with status 200 only.
PageCursorStep ==
    /\ last_event' = "200" =>
           IF more_pages'
           THEN cs_pc' = "request" /\ index' = index /\ params'.page = params.page + 1
           ELSE Len(fetched') = Len(fetched) + 1
    /\ (cs_pc = "request" /\ cs_pc' = "request" /\ index' = index) =>
           \/ params'.page = params.page
           \/ params'.page = params.page + 1 /\ last_event' = "200" /\ more_pages'

\* C13: every request getting a response and the API reporting no further page
\* after MaxPage pages, every fetch for a tax id terminates; a response with
\* status 200 is followed by the request of the next page only when it indicates
\* that there is one; and the page cursor never decreases and advances by
\* exactly one per successful page.
C13_FetchTerminates ==
    /\ \A i \in 0..(Len(EntityTable) - 1) : Fetching(i) ~> ~Fetching(i)
    /\ [][PageCursorStep]_vars

\* C13 witness: a fetch of two pages, with a 429 on the way, has ended.
C13_Witness ==
    /\ cs_pc = "done" /\ last_event = "200" /\ ~more_pages
    /\ Len(pages) = 2 /\ limited # {}

\* A call of query_clearspending has returned, and no response has come since
JustReturned ==
    /\ fetched # << >>
    /\ last_event \in {"200", "status", "exception"}
    /\ cs_pc = "request" => PagesSoFar = << >>

\* While a request is in flight: the key index is one of the keys' and the request
\* carries that key; the contracts accumulated are those of the pages got so far,
\* in page order, each once; and the page asked for is the one after them.
RequestInFlightOk ==
    cs_pc = "request" =>
        /\ current_key_index \in 0..(Len(api_keys) - 1)
        /\ params.apikey = api_keys[current_key_index + 1]
        /\ all_contracts = Flatten(PagesSoFar)
        /\ params.page = Len(PagesSoFar) + 1

\* A response with status 429 leaves the page cursor, the tax id asked for and
\* the contracts accumulated as they are, and the key index grows.
RateLimitStep ==
    last_event' = "429" =>
        /\ params'.page = params.page
        /\ params'.customer_inn = params.customer_inn
        /\ all_contracts' = all_contracts
        /\ current_key_index' > current_key_index

\* C20: however the responses with status 429 and 200 of one call of
\* query_clearspending interleave, a 429 leaves the page cursor and the list
\* accumulated unchanged and strictly increases the key index; the list returned
\* is the concatenation, in page order, of the contracts of the pages 1..k, each
\* page once; and every request uses a key index in 0..len(api_keys)-1.
C20_RetryKeepsPageAndList ==
    /\ [](RequestInFlightOk /\ (JustReturned => Last(fetched).contracts = Flatten(pages)))
    /\ [][RateLimitStep]_vars

\* C20 witness: page 1 came with a contract, the request for page 2 answered 429,
\* and page 2 is being asked for again with the second key.
C20_Witness ==
    /\ cs_pc = "request" /\ last_event = "429"
    /\ params.page = 2 /\ current_key_index = 1
    /\ Len(all_contracts) = 1 /\ pages = <<all_contracts>>

\* C15 (as claimed): the delay applied after a response with status 429 is the
\* base of 5 seconds after the first, and one second more after every further
\* consecutive 429 (throttled holds the keys that have answered 429 in a row).
C15_DelayGrowsWithThrottling ==
    (cs_pc = "request" /\ last_event = "429") =>
        delay = SleepSeconds + (Cardinality(throttled) - 1)

\* C16 (as claimed): every request (for the first page, for a following page,
\* after a 429) comes right after a politeness delay.
C16_DelayBeforeEveryRequest ==
    cs_pc = "request" => delay > 0

\* C17 (as claimed): no request is sent with a credential that has answered 429
\* before, in the same fetch or in the fetch of an earlier entity.
C17_LimitedKeyNeverReused ==
    cs_pc = "request" => params.apikey \notin limited

----------------------------------------------------------------------------
(* Properties of the entity dedup and of is_valid_inn *)

\* The rows of all_results with the innCode of row i, by position
SameInn(i) == { j \in 1..Len(all_results) : all_results[j].innCode = all_results[i].innCode }

\* Row i is the first, in input order, of the richest rows with its innCode
RichestFirst(i) ==
    \A j \in SameInn(i) :
        \/ calculate_richness_score(all_results[j]) < calculate_richness_score(all_results[i])
        \/ (calculate_richness_score(all_results[j]) = calculate_richness_score(all_results[i])
            /\ i <= j)

DfLabels == { df[i].idx : i \in 1..Len(df) }

\* C2 (as claimed): the table saved, after the dedup and the manual resolution,
\* has at most one record per tax id that is not null.
C2_OneRecordPerTaxId ==
    os_pc = "saved" =>
        \A i, j \in 1..Len(df) :
            (i # j /\ notnull(df[i].innCode)) => df[i].innCode # df[j].innCode

\* C7 (as claimed): of the entities with the same tax id, the dedup keeps the one
\* of the highest richness score and, of several with that score, the one met
\* first in input order.
C7_RichestFirstKept ==
    os_pc \in {"prompt", "saved"} =>
        \A i \in 1..Len(all_results) :
            notnull(all_results[i].innCode) =>
                (all_results[i].idx \in DfLabels <=> RichestFirst(i))

\* C8 (as claimed): every entity without tax id that passed the person and caption
\* filters is kept by the dedup and put to the manual resolution.
C8_NullEntitiesSurfaced ==
    os_pc = "saved" =>
        \A i \in 1..Len(all_results) :
            isna(all_results[i].innCode) =>
                (all_results[i].idx \in DfLabels /\ all_results[i].idx \in SeqRange(prompted))

\* The table is the output of the dedup of lines 177-180 (no prompt has changed it)
DedupOutput == os_pc \in {"prompt", "saved"} /\ prompted = << >>

\* C11: the dedup of lines 177-180 (richness score, sort_values, drop_duplicates)
\* applied to its own output, whatever order the sort leaves rows of equal score
\* in, gives the same set of records with the same field values.
C11_DedupIdempotent ==
    DedupOutput =>
        \A sorted \in sort_values(df) : SeqRange(drop_duplicates(sorted)) = SeqRange(df)

\* C11 witness: the dedup has dropped a record, and its output holds two records
\* of equal richness score, which a second sort may put in either order.
C11_Witness ==
    /\ DedupOutput
    /\ Len(df) < Len(all_results)
    /\ \E i, j \in 1..Len(df) :
          i # j /\ calculate_richness_score(df[i]) = calculate_richness_score(df[j])

\* A step in which a request of the sanctions search fails: the results collected
\* stay, and the loop goes on with the next keyword at offset 0, or, after the
\* last keyword, with the dedup.
SearchFailureStep ==
    failed' # failed =>
        /\ all_results' = all_results
        /\ IF keyword_i < Len(Keywords)
           THEN os_pc' = "collect" /\ keyword_i' = keyword_i + 1 /\ offset' = 0
           ELSE os_pc' # "collect"

\* C14: a response with an error status or a network failure during the sanctions
\* search ends the pagination of the keyword being searched only: the results
\* collected before are kept, every later keyword is searched from offset 0, and
\* the dedup is reached only after the last keyword.
C14_FailureEndsOnlyTheKeyword ==
    /\ [](os_pc \in {"prompt", "saved"} => keyword_i = Len(Keywords))
    /\ [][SearchFailureStep]_vars

\* C14 witness: the search of the first keyword has failed after a page of two
\* results, which are kept, and the second keyword is about to be searched from
\* offset 0.
C14_Witness ==
    /\ failed = <<1>> /\ os_pc = "collect"
    /\ keyword_i = 2 /\ offset = 0 /\ Len(all_results) = 2

\* C18 (as claimed): every innCode that is not null and by which the dedup has
\* grouped the records is a string of 10 or 12 ASCII digits.
C18_DedupKeysAreTaxIds ==
    os_pc \in {"prompt", "saved"} =>
        \A i \in 1..Len(all_results) :
            notnull(all_results[i].innCode) => IsTaxId(all_results[i].innCode)

\* C5 (as claimed): is_valid_inn is True exactly for the strings of 10 or 12 ASCII
\* digits, and False for every other value.
C5_ValidIffTaxId ==
    inn_checked => (inn_valid <=> IsTaxId(number))

====
